---- MODULE Spec2Model ----
(***************************************************************************)
(* MitreAtlas (src/mitreatlas.py): the corpus loader, the embedding ranker, *)
(* the coverage aggregator and the command-line shell that runs them.       *)
(*                                                                          *)
(* JSON values are modelled by what Python's json module yields: an object  *)
(* is a function from its keys, an array a sequence, a missing key a key    *)
(* outside the DOMAIN.  A string the code inspects character by character   *)
(* (a technique id, for its '.') is a sequence of one-character strings;    *)
(* the other strings are opaque.  A percentage is held in hundredths of a   *)
(* percent (50.0 is 5000) and a similarity in thousandths, so that the      *)
(* rounding of the code is integer arithmetic.                              *)
(***************************************************************************)
EXTENDS Integers, Sequences, FiniteSets, TLC

VARIABLES
  pc,          \* where main is
  args,        \* the parsed command line
  inputFile,   \* the use-case file
  mitreFile,   \* the corpus file at args.mitrejson
  outFile,     \* the output file
  response,    \* the answer to the overwrite prompt
  sim,         \* the loaded model, as its similarity table
  techniques,  \* what load_mitre_techniques returned
  usecases,    \* mitre_semantic's usecases
  idx,         \* the use case the loop is at
  results,     \* mitre_semantic's results
  writes,      \* how often the output file was written
  coverage,    \* what calculate_coverage_per_tactic returned
  exitCode,    \* the exit code of the process, once pc = "exited"
  ran          \* the stages that have run

vars == <<pc, args, inputFile, mitreFile, outFile, response, sim, techniques,
          usecases, idx, results, writes, coverage, exitCode, ran>>

(* ------------------------------ bounds --------------------------------- *)

\* Longest use-case array of the input file.
MaxUseCases == 2
\* Objects put in front of the filler techniques in a corpus of the full run.
MaxPrefix == 1
\* Longest corpus handed to the loader and the aggregator on their own.
MaxObjs == 3
\* Matches of a results document handed to the aggregator on its own.
MaxMatches == 2

\* cos_scores.topk(5)
TopK == 5

(* --------------------------- Python values ----------------------------- *)

\* dict.get(key, default)
Get(d, k, default) == IF k \in DOMAIN d THEN d[k] ELSE default

\* The empty dict, {}.
EmptyDict == [k \in {} |-> {}]

\* None, where the code stores it among technique ids.
None == <<"None">>

\* The four-character string "null".
NullStr == <<"n", "u", "l", "l">>

\* The test left out: every id counts.
HasDot_Any(tid) == TRUE

\* "." in tid
HasDot(tid) == \E i \in 1..Len(tid) : tid[i] = "."

RECURSIVE SeqsUpTo(_, _)
SeqsUpTo(S, n) ==
  IF n = 0 THEN {<<>>}
  ELSE LET shorter == SeqsUpTo(S, n - 1)
       IN  shorter \cup {Append(s, x) : s \in {t \in shorter : Len(t) = n - 1}, x \in S}

Range(s) == {s[i] : i \in 1..Len(s)}

(* ------------------------- the ATT&CK corpus --------------------------- *)

Ref(id) == [source_name |-> "mitre-attack", external_id |-> id]
Phase(t) == [kill_chain_name |-> "mitre-attack", phase_name |-> t]
\* A kill-chain phase without "phase_name".
BarePhase == [kill_chain_name |-> "mitre-attack"]

T1 == <<"T", "1">>
T1_1 == <<"T", "1", ".", "1">>
T1_2 == <<"T", "1", ".", "2">>
T2_1 == <<"T", "2", ".", "1">>
T3_1 == <<"T", "3", ".", "1">>
T4 == <<"T", "4">>
T5 == <<"T", "5">>
T9_9 == <<"T", "9", ".", "9">>

\* A sub-technique of one tactic.
SubExec ==
  [type |-> "attack-pattern", name |-> "PowerShell", description |-> "a",
   x_mitre_is_subtechnique |-> TRUE, external_references |-> <<Ref(T1_1)>>,
   kill_chain_phases |-> <<Phase("execution")>>]
\* A sub-technique of two tactics.
SubTwoTactics ==
  [type |-> "attack-pattern", name |-> "At", description |-> "b",
   x_mitre_is_subtechnique |-> TRUE, external_references |-> <<Ref(T1_2)>>,
   kill_chain_phases |-> <<Phase("execution"), Phase("persistence")>>]
\* A top-level technique.
TechExec ==
  [type |-> "attack-pattern", name |-> "Interpreter", description |-> "c",
   x_mitre_is_subtechnique |-> FALSE, external_references |-> <<Ref(T1)>>,
   kill_chain_phases |-> <<Phase("execution")>>]
\* A revoked sub-technique.
SubRevoked ==
  [type |-> "attack-pattern", name |-> "Old", description |-> "a", revoked |-> TRUE,
   x_mitre_is_subtechnique |-> TRUE, external_references |-> <<Ref(T2_1)>>,
   kill_chain_phases |-> <<Phase("execution")>>]
\* A sub-technique whose external_references is the empty list.
SubNoRefs ==
  [type |-> "attack-pattern", name |-> "NoRefs", description |-> "b",
   x_mitre_is_subtechnique |-> TRUE, external_references |-> <<>>,
   kill_chain_phases |-> <<Phase("execution")>>]
\* A sub-technique whose first reference has no external_id.
SubNoId ==
  [type |-> "attack-pattern", name |-> "NoId", description |-> "c",
   x_mitre_is_subtechnique |-> TRUE,
   external_references |-> <<[source_name |-> "capec"]>>,
   kill_chain_phases |-> <<Phase("execution"), BarePhase>>]
\* An attack-pattern with no external_references, no description and no phases.
TechBare == [type |-> "attack-pattern", name |-> "Bare"]
\* A dotted id on an object that is not flagged x_mitre_is_subtechnique.
DottedUnflagged ==
  [type |-> "attack-pattern", name |-> "Dotted", description |-> "a",
   external_references |-> <<Ref(T3_1)>>,
   kill_chain_phases |-> <<Phase("persistence")>>]
\* A tactic.
TacticExec ==
  [type |-> "x-mitre-tactic", name |-> "Execution", x_mitre_shortname |-> "execution"]

ObjPool == {SubExec, SubTwoTactics, TechExec, SubRevoked, SubNoRefs, SubNoId,
            TechBare, DottedUnflagged, TacticExec}

\* The objects that bear on the coverage figures.
CovPool == {SubExec, SubTwoTactics, SubRevoked, SubNoId, DottedUnflagged}

FillTech(id, name, desc, sub, tactic) ==
  [type |-> "attack-pattern", name |-> name, description |-> desc,
   x_mitre_is_subtechnique |-> sub, external_references |-> <<Ref(id)>>,
   kill_chain_phases |-> <<Phase(tactic)>>]

\* Five well-formed techniques: the least corpus topk(5) accepts.
Filler == <<SubExec, SubTwoTactics,
            FillTech(T1, "Interpreter", "f3", FALSE, "execution"),
            FillTech(T4, "Phishing", "f4", FALSE, "initial-access"),
            FillTech(T5, "Valid Accounts", "f5", FALSE, "persistence")>>

\* A corpus document without the "objects" key.
NoObjectsDoc == [type |-> "bundle"]

Bundle(objs) == [type |-> "bundle", objects |-> objs]

(* --------------------------- Corpus Loader ----------------------------- *)

IsLiveAttackPattern(obj) ==
  Get(obj, "type", "None") = "attack-pattern" /\ ~Get(obj, "revoked", FALSE)

\* obj.get("external_references", [{}])[0] raises IndexError on [].
FirstRefRaises(obj) == Get(obj, "external_references", <<EmptyDict>>) = <<>>

MakeTechnique(obj) ==
  [id |-> Get(Get(obj, "external_references", <<EmptyDict>>)[1], "external_id", NullStr),
   name |-> Get(obj, "name", ""),
   description |-> Get(obj, "description", ""),
   phases |-> LET ph == Get(obj, "kill_chain_phases", <<>>)
              IN  [i \in 1..Len(ph) |-> Get(ph[i], "phase_name", "")]]

RECURSIVE ExtractLoop(_, _)
ExtractLoop(objs, acc) ==
  IF objs = <<>> THEN [raised |-> FALSE, value |-> acc]
  ELSE LET obj == Head(objs)
       IN  IF IsLiveAttackPattern(obj)
           THEN IF FirstRefRaises(obj)
                THEN [raised |-> TRUE, value |-> <<>>]
                ELSE ExtractLoop(Tail(objs), Append(acc, MakeTechnique(obj)))
           ELSE ExtractLoop(Tail(objs), acc)

\* The list of techniques, or the IndexError the loop ends in.
extract_techniques(data) == ExtractLoop(Get(data, "objects", <<>>), <<>>)

\* mitrejson['objects'] and obj['x_mitre_shortname'], obj['name'] raise KeyError;
\* the counts are only logged.
get_total_sub_techniques_raises(data) ==
  \/ "objects" \notin DOMAIN data
  \/ \E i \in 1..Len(data.objects) :
       /\ Get(data.objects[i], "type", "None") = "x-mitre-tactic"
       /\ ~({"x_mitre_shortname", "name"} \subseteq DOMAIN data.objects[i])

\* defaultdict(set): d[k].add(v)
AddTo(d, k, v) ==
  [x \in DOMAIN d \cup {k} |->
     IF x = k THEN (IF k \in DOMAIN d THEN d[k] ELSE {}) \cup {v} ELSE d[x]]

RECURSIVE AddAll(_, _, _)
AddAll(d, keys, v) ==
  IF keys = <<>> THEN d ELSE AddAll(AddTo(d, Head(keys), v), Tail(keys), v)

\* [p["phase_name"] for p in ... if "phase_name" in p]
NamedPhases(obj) ==
  LET ph == Get(obj, "kill_chain_phases", <<>>)
      named == SelectSeq(ph, LAMBDA p : "phase_name" \in DOMAIN p)
  IN  [i \in 1..Len(named) |-> named[i].phase_name]

CountsAsSubtechnique(obj) ==
  /\ IsLiveAttackPattern(obj)
  /\ Get(obj, "x_mitre_is_subtechnique", FALSE)
  /\ Get(obj, "external_references", <<>>) # <<>>

RECURSIVE SubtechLoop(_, _)
SubtechLoop(objs, d) ==
  IF objs = <<>> THEN d
  ELSE LET obj == Head(objs)
       IN  IF CountsAsSubtechnique(obj)
           THEN SubtechLoop(Tail(objs),
                  AddAll(d, NamedPhases(obj),
                         Get(obj.external_references[1], "external_id", None)))
           ELSE SubtechLoop(Tail(objs), d)

load_subtechniques_by_tactic(mitre_data) ==
  SubtechLoop(Get(mitre_data, "objects", <<>>), EmptyDict)

(* ------------------------- Coverage Aggregator ------------------------- *)

RECURSIVE MatchLoop(_, _)
MatchLoop(matches, d) ==
  IF matches = <<>> THEN d
  ELSE LET match == Head(matches)
       IN  IF HasDot(match.id)
           THEN MatchLoop(Tail(matches), AddAll(d, Get(match, "phases", <<>>), match.id))
           ELSE MatchLoop(Tail(matches), d)

RECURSIVE EntryLoop(_, _)
EntryLoop(entries, d) ==
  IF entries = <<>> THEN d
  ELSE EntryLoop(Tail(entries), MatchLoop(Head(entries).matches, d))

extract_matched_subtechniques_by_tactic(results_json) ==
  EntryLoop(results_json, EmptyDict)

\* round(x / y, 0) for x >= 0, y > 0, a tie going to the even neighbour.
RoundDiv(x, y) ==
  LET q == x \div y
      r == x % y
  IN  IF 2 * r < y THEN q
      ELSE IF 2 * r > y THEN q + 1
      ELSE IF q % 2 = 0 THEN q ELSE q + 1

\* The "* 100" left out: a fraction instead of a percentage.
coverage_percent_NoScale(matched, total) ==
  IF total # 0 THEN RoundDiv(100 * matched, total) ELSE 0

\* round((matched / total) * 100, 2) if total else 0, in hundredths of a percent.
coverage_percent(matched, total) ==
  IF total # 0 THEN RoundDiv(10000 * matched, total) ELSE 0

\* The tactics the coverage loop iterates over.
CoverageKeys(total_subs, matched_subs) == DOMAIN total_subs

TacticCoverage(total_ids, matched_ids) ==
  [matched |-> Cardinality(matched_ids),
   total |-> Cardinality(total_ids),
   coverage_percent |-> coverage_percent(Cardinality(matched_ids), Cardinality(total_ids))]

calculate_coverage_per_tactic(mitre_data, results_data) ==
  LET total_subs == load_subtechniques_by_tactic(mitre_data)
      matched_subs == extract_matched_subtechniques_by_tactic(results_data)
  IN  [tactic \in CoverageKeys(total_subs, matched_subs) |->
         TacticCoverage(total_subs[tactic], Get(matched_subs, tactic, {}))]

(* ------------------ files, arguments and the model --------------------- *)

\* A file the run has not looked at yet: what is on disk is drawn when it does.
Unread == [state |-> "unread"]
NoFile == [state |-> "absent"]
BadJson == [state |-> "invalid"]
JsonFile(v) == [state |-> "json", data |-> v]

\* An output file left by an earlier run.
OldOutput ==
  JsonFile(<<[usecase |-> "old", description |-> "old", matches |-> <<>>]>>)

\* -m/--mitrejson: the default, and a name that does not end in ".json".
DefaultMitrePath == [stem |-> "enterprise-attack", suffix |-> ".json"]
StixMitrePath == [stem |-> "enterprise-attack", suffix |-> ".stix"]

\* str(file_path).endswith(".json")
EndsWithJson(path) == path.suffix = ".json"

\* Elements of a use-case file: two use cases, an object without "description",
\* and a JSON string.
UseCase1 == [json |-> "object", fields |-> [name |-> "usecase1", description |-> "x"]]
UseCase2 == [json |-> "object", fields |-> [name |-> "usecase2", description |-> "y"]]
NoDescription == [json |-> "object", fields |-> [name |-> "usecase3"]]
NotAnObject == [json |-> "string"]

ItemPool == {UseCase1, UseCase2, NoDescription, NotAnObject}

Array(items) == [json |-> "array", items |-> items]
\* A use-case file holding one object instead of an array.
NotAList == [json |-> "object", fields |-> [name |-> "usecase1", description |-> "x"]]

InputFiles ==
  {BadJson, JsonFile(NotAList)}
    \cup {JsonFile(Array(items)) : items \in SeqsUpTo(ItemPool, MaxUseCases)}

\* The corpus files of a full run: short ones, and ones topk(5) accepts.
MainCorpusFiles ==
  {NoFile, BadJson, JsonFile(NoObjectsDoc)}
    \cup {JsonFile(Bundle(p)) : p \in SeqsUpTo(ObjPool, MaxPrefix)}
    \cup {JsonFile(Bundle(p \o Filler)) : p \in SeqsUpTo(ObjPool, MaxPrefix)}

\* What a download may leave in enterprise-attack.json.
Downloads == {BadJson, JsonFile(Bundle(Filler))}

\* Cosine similarity of a use-case description and a technique description, in
\* thousandths: the embedding model is a black box, two of its possible tables.
SimA(u, t) ==
  IF u = "x"
  THEN CASE t = "a" -> 900 [] t = "b" -> 800 [] t = "f3" -> 700 [] t = "f4" -> 600
         [] t = "f5" -> 500 [] t = "c" -> 500 [] OTHER -> 100
  ELSE CASE t = "a" -> 100 [] t = "b" -> 200 [] t = "f3" -> 300 [] t = "f4" -> 400
         [] t = "f5" -> 500 [] t = "c" -> 950 [] OTHER -> 600

SimB(u, t) ==
  IF u = "x"
  THEN CASE t = "a" -> 300 [] t = "b" -> 650 [] t = "f3" -> 200 [] t = "f4" -> 750
         [] t = "f5" -> 850 [] t = "c" -> 100 [] OTHER -> 200
  ELSE CASE t = "a" -> 990 [] t = "b" -> 10 [] t = "f3" -> 20 [] t = "f4" -> 30
         [] t = "f5" -> 40 [] t = "c" -> 50 [] OTHER -> 60

UseCaseTexts == {"x", "y"}
TechniqueTexts == {"", "a", "b", "c", "f3", "f4", "f5"}

\* No model loaded yet.
NoModel == [u \in {}, t \in {} |-> 0]

SimTables ==
  {[u \in UseCaseTexts, t \in TechniqueTexts |-> SimA(u, t)],
   [u \in UseCaseTexts, t \in TechniqueTexts |-> SimB(u, t)]}

(* --------------------------- input validation -------------------------- *)

\* The check of "description" left out.
check_input_file_NameOnly(file) ==
  /\ file.state = "json"
  /\ file.data.json = "array"
  /\ \A i \in 1..Len(file.data.items) :
       /\ file.data.items[i].json = "object"
       /\ "name" \in DOMAIN file.data.items[i].fields

\* check_input_file: True, or False after the first error it logs.
check_input_file(file) ==
  /\ file.state = "json"
  /\ file.data.json = "array"
  /\ \A i \in 1..Len(file.data.items) :
       /\ file.data.items[i].json = "object"
       /\ "name" \in DOMAIN file.data.items[i].fields
       /\ "description" \in DOMAIN file.data.items[i].fields

\* check_mitre_json: file_path.is_file() and str(file_path).endswith(".json")
check_mitre_json(path, file) == file.state # "absent" /\ EndsWithJson(path)

(* --------------------------- Embedding Ranker -------------------------- *)

\* cos_scores: one score per technique, in the order of the technique list.
CosScores(table, uc, techs) ==
  [i \in 1..Len(techs) |-> table[Get(uc, "description", ""), techs[i].description]]

\* The indices among `left` whose score is the largest.
ArgMax(scores, left) == {i \in left : \A j \in left : scores[j] <= scores[i]}

\* cos_scores.topk(k).indices: k times over, an index of the largest score not
\* yet taken; which one among equal scores is the library's choice.
RECURSIVE TopKFrom(_, _, _)
TopKFrom(scores, left, k) ==
  IF k = 0 THEN {<<>>}
  ELSE UNION {{<<i>> \o rest : rest \in TopKFrom(scores, left \ {i}, k - 1)} :
                i \in ArgMax(scores, left)}

TopKIndices(scores, k) == TopKFrom(scores, 1..Len(scores), k)

\* One element of matches, for the technique at index i.
MakeMatch(techs, i, score, remove_score) ==
  IF remove_score
  THEN [id |-> techs[i].id, name |-> techs[i].name, phases |-> techs[i].phases]
  ELSE [id |-> techs[i].id, name |-> techs[i].name, phases |-> techs[i].phases,
        score |-> score]

MakeEntry(uc, matches) ==
  [usecase |-> uc.name, description |-> uc.description, matches |-> matches]

\* The entry put in front instead.
AppendResult_Front(res, entry) == <<entry>> \o res

\* results.append(entry)
AppendResult(res, entry) == Append(res, entry)

(* ------------------------------- main ---------------------------------- *)

\* sys.exit(code), or main returning (the interpreter then exits with 0).
Exit(code) == pc' = "exited" /\ exitCode' = code

Init ==
  /\ pc = "start"
  /\ args \in [download : BOOLEAN, removescore : BOOLEAN,
               mitrejson : {DefaultMitrePath, StixMitrePath}]
  /\ inputFile \in InputFiles
  /\ mitreFile = Unread
  /\ outFile = Unread
  /\ response = "none"
  /\ sim = NoModel
  /\ techniques = <<>>
  /\ usecases = <<>>
  /\ idx = 1
  /\ results = <<>>
  /\ writes = 0
  /\ coverage = EmptyDict
  /\ exitCode = -1
  /\ ran = {}

\* if check_input_file(...): ... ; a False falls through to the end of main.
CheckInputFile ==
  /\ pc = "start"
  /\ IF check_input_file(inputFile)
     THEN pc' = "check_output" /\ exitCode' = exitCode
     ELSE Exit(0)
  /\ UNCHANGED <<args, response, inputFile, mitreFile, outFile, sim, techniques, usecases,
                 idx, results, writes, coverage, ran>>

\* check_output_file_exists: the prompt, when the output file is there.
CheckOutputFileExists ==
  /\ pc = "check_output"
  /\ outFile' \in {NoFile, OldOutput}
  /\ IF outFile'.state # "absent"
     THEN /\ response' \in {"y", "n", "EOF"}
          /\ ran' = ran \cup {"prompt"}
          /\ CASE response' = "y" -> pc' = "download" /\ exitCode' = exitCode
               [] response' = "n" -> Exit(0)
               [] OTHER -> Exit(1)
     ELSE pc' = "download" /\ UNCHANGED <<exitCode, ran, response>>
  /\ UNCHANGED <<args, inputFile, mitreFile, sim, techniques, usecases,
                 idx, results, writes, coverage>>

\* if args.download: download_file(), which writes enterprise-attack.json.
DownloadFile ==
  /\ pc = "download"
  /\ IF args.download
     THEN /\ ran' = ran \cup {"download"}
          /\ \/ \E content \in Downloads :
                  /\ mitreFile' = IF args.mitrejson = DefaultMitrePath
                                  THEN content ELSE mitreFile
                  /\ pc' = "check_mitre" /\ exitCode' = exitCode
             \/ Exit(1) /\ mitreFile' = mitreFile
     ELSE pc' = "check_mitre" /\ UNCHANGED <<exitCode, mitreFile, ran>>
  /\ UNCHANGED <<args, response, inputFile, outFile, sim, techniques, usecases,
                 idx, results, writes, coverage>>

CheckMitreJson ==
  /\ pc = "check_mitre"
  /\ mitreFile' \in (IF mitreFile = Unread THEN MainCorpusFiles ELSE {mitreFile})
  /\ IF check_mitre_json(args.mitrejson, mitreFile')
     THEN pc' = "load" /\ exitCode' = exitCode
     ELSE Exit(1)
  /\ UNCHANGED <<args, response, inputFile, outFile, sim, techniques, usecases,
                 idx, results, writes, coverage, ran>>

\* Whether load_mitre_techniques reaches its except clause, which is sys.exit(1).
LoadFails(file) ==
  \/ file.state # "json"
  \/ extract_techniques(file.data).raised
  \/ get_total_sub_techniques_raises(file.data)

LoadMitreTechniques ==
  /\ pc = "load"
  /\ ran' = ran \cup {"corpus_load"}
  /\ IF LoadFails(mitreFile)
     THEN Exit(1) /\ techniques' = techniques
     ELSE /\ techniques' = extract_techniques(mitreFile.data).value
          /\ pc' = "semantic" /\ exitCode' = exitCode
  /\ UNCHANGED <<args, response, inputFile, mitreFile, outFile, sim, usecases,
                 idx, results, writes, coverage>>

\* mitre_semantic up to its loop: the model load (which may fail), the use cases,
\* the encoding of the technique texts (of an empty list: raises in some releases).
MitreSemanticInit ==
  /\ pc = "semantic"
  /\ ran' = ran \cup {"model"}
  /\ \/ /\ \E encoded \in (IF techniques = <<>> THEN BOOLEAN ELSE {TRUE}) : encoded
        /\ sim' \in SimTables
        /\ usecases' = [i \in 1..Len(inputFile.data.items) |->
                          inputFile.data.items[i].fields]
        /\ results' = <<>>
        /\ idx' = 1
        /\ pc' = "rank" /\ exitCode' = exitCode
     \/ Exit(1) /\ UNCHANGED <<sim, usecases, results, idx>>
  /\ UNCHANGED <<args, response, inputFile, mitreFile, outFile, techniques,
                 writes, coverage>>

\* One pass of "for uc in usecases"; uc["name"] and uc["description"] raise
\* KeyError, topk(5) raises on fewer than 5 scores.
RankUseCase ==
  /\ pc = "rank"
  /\ idx <= Len(usecases)
  /\ LET uc == usecases[idx]
         cos_scores == CosScores(sim, uc, techniques)
     IN  IF ~({"name", "description"} \subseteq DOMAIN uc) \/ Len(techniques) < TopK
         THEN Exit(1) /\ UNCHANGED <<results, idx>>
         ELSE \E top \in TopKIndices(cos_scores, TopK) :
                /\ results' = AppendResult(results,
                     MakeEntry(uc, [n \in 1..TopK |->
                       MakeMatch(techniques, top[n], cos_scores[top[n]],
                                 args.removescore)]))
                /\ idx' = idx + 1
                /\ pc' = pc /\ exitCode' = exitCode
  /\ UNCHANGED <<args, response, inputFile, mitreFile, outFile, sim, techniques, usecases,
                 writes, coverage, ran>>

\* json.dump(results, f, indent=2), after the loop.
WriteResults ==
  /\ pc = "rank"
  /\ idx > Len(usecases)
  /\ outFile' = JsonFile(results)
  /\ writes' = writes + 1
  /\ ran' = ran \cup {"write"}
  /\ pc' = "coverage"
  /\ UNCHANGED <<args, response, inputFile, mitreFile, sim, techniques, usecases,
                 idx, results, coverage, exitCode>>

\* results = calculate_coverage_per_tactic(args.mitrejson, args.output)
CalculateCoverage ==
  /\ pc = "coverage"
  /\ ran' = ran \cup {"coverage"}
  /\ IF mitreFile.state = "json" /\ outFile.state = "json"
     THEN /\ coverage' = calculate_coverage_per_tactic(mitreFile.data, outFile.data)
          /\ pc' = "print" /\ exitCode' = exitCode
     ELSE Exit(1) /\ coverage' = coverage
  /\ UNCHANGED <<args, response, inputFile, mitreFile, outFile, sim, techniques, usecases,
                 idx, results, writes>>

\* pretty_print(results); sys.exit(0)
PrettyPrint ==
  /\ pc = "print"
  /\ ran' = ran \cup {"print"}
  /\ Exit(0)
  /\ UNCHANGED <<args, response, inputFile, mitreFile, outFile, sim, techniques,
                 usecases, idx, results, writes, coverage>>

Next ==
  \/ CheckInputFile
  \/ CheckOutputFileExists
  \/ DownloadFile
  \/ CheckMitreJson
  \/ LoadMitreTechniques
  \/ MitreSemanticInit
  \/ RankUseCase
  \/ WriteResults
  \/ CalculateCoverage
  \/ PrettyPrint

Spec == Init /\ [][Next]_vars

(* ------------- the loader and the aggregator on their own -------------- *)

\* Matches of a results document: a sub-technique of the corpus, one the corpus
\* does not hold, a top-level technique, and a match without "phases".
MatchPool ==
  {[id |-> T1_1, name |-> "PowerShell", phases |-> <<"execution">>, score |-> 900],
   [id |-> T9_9, name |-> "Other", phases |-> <<"execution", "persistence">>],
   [id |-> T1, name |-> "Interpreter", phases |-> <<"execution">>, score |-> 700],
   [id |-> T1_2, name |-> "At"]}

Entry(n, matches) ==
  [usecase |-> n, description |-> "x", matches |-> matches]

\* Results documents: none, one or two entries over the same matches.
ResultsDocs ==
  {<<>>}
    \cup {<<Entry("usecase1", ms)>> : ms \in SeqsUpTo(MatchPool, MaxMatches)}
    \cup {<<Entry("usecase1", SubSeq(ms, 1, Len(ms) \div 2)),
            Entry("usecase2", SubSeq(ms, Len(ms) \div 2 + 1, Len(ms)))>> :
            ms \in SeqsUpTo(MatchPool, MaxMatches)}

\* load_mitre_techniques, or calculate_coverage_per_tactic, called on files of
\* the caller's choosing.
InitFn ==
  /\ args = [download |-> FALSE, removescore |-> FALSE, mitrejson |-> DefaultMitrePath]
  /\ inputFile = JsonFile(Array(<<>>))
  /\ response = "none"
  /\ sim = NoModel
  /\ techniques = <<>>
  /\ usecases = <<>>
  /\ idx = 1
  /\ results = <<>>
  /\ writes = 0
  /\ coverage = EmptyDict
  /\ exitCode = -1
  /\ ran = {}
  /\ \/ /\ pc = "load"
        /\ mitreFile \in {JsonFile(NoObjectsDoc)}
             \cup {JsonFile(Bundle(p)) : p \in SeqsUpTo(ObjPool, MaxObjs)}
        /\ outFile = NoFile
     \/ /\ pc = "coverage"
        /\ mitreFile \in {JsonFile(NoObjectsDoc)}
             \cup {JsonFile(Bundle(p)) : p \in SeqsUpTo(CovPool, MaxObjs)}
        /\ outFile \in {JsonFile(r) : r \in ResultsDocs}

NextFn ==
  \/ LoadMitreTechniques
  \/ CalculateCoverage

SpecFn == InitFn /\ [][NextFn]_vars

(* ------------------------------ properties ----------------------------- *)

Tactics == {"", "execution", "persistence", "initial-access", "discovery"}

Abs(x) == IF x < 0 THEN -x ELSE x

Min(a, b) == IF a < b THEN a ELSE b

\* Every Match of every MatchEntry of a results document.
AllMatches(doc) == UNION {Range(doc[i].matches) : i \in 1..Len(doc)}

\* C1: every tactic of a coverage result has matched <= total.
C1_MatchedAtMostTotal ==
  \A t \in DOMAIN coverage : coverage[t].matched <= coverage[t].total

\* C2: main exits with 1 on an invalid use-case file, on a missing or wrongly
\* named corpus file and on any unexpected failure, with 0 when the user declines
\* to overwrite, and with 0 on success.
C2_ExitCodes ==
  pc = "exited" =>
    exitCode = IF ~check_input_file(inputFile) THEN 1
               ELSE IF response = "n" THEN 0
               ELSE IF "print" \in ran THEN 0
               ELSE 1

\* The use-case file is JSON, and not a list, or has an element that is no
\* object or lacks "name" or "description".
InputMalformed(file) ==
  /\ file.state = "json"
  /\ \/ file.data.json # "array"
     \/ \E i \in 1..Len(file.data.items) :
          \/ file.data.items[i].json # "object"
          \/ ~({"name", "description"} \subseteq DOMAIN file.data.items[i].fields)

\* C3: on a malformed use-case file check_input_file returns False and no later
\* stage runs: no prompt, no download, no corpus load, no model, no write of the
\* output file, no coverage.
C3_InvalidInputStopsRun ==
  InputMalformed(inputFile) =>
    /\ ~check_input_file(inputFile)
    /\ pc \in {"start", "exited"}
    /\ ran = {}
    /\ outFile = Unread /\ mitreFile = Unread /\ response = "none"
    /\ sim = NoModel /\ techniques = <<>> /\ results = <<>>
    /\ writes = 0 /\ coverage = EmptyDict

C3_Witness ==
  /\ pc = "exited"
  /\ inputFile = JsonFile(Array(<<UseCase1, NoDescription>>))

\* The distinct dotted ids of the matches whose phases include t.
C4_DottedIds(doc, t) ==
  {m.id : m \in {x \in AllMatches(doc) :
                   /\ "." \in Range(x.id)
                   /\ "phases" \in DOMAIN x
                   /\ t \in Range(x.phases)}}

\* C4: for every tactic the matched set is exactly the dotted ids of the matches
\* whose phases include it, so an id without '.' adds to no tactic's matched.
C4_MatchedIsDottedIds ==
  outFile.state = "json" =>
    LET matched == extract_matched_subtechniques_by_tactic(outFile.data)
    IN  /\ \A t \in Tactics : Get(matched, t, {}) = C4_DottedIds(outFile.data, t)
        /\ DOMAIN matched \subseteq Tactics
        /\ pc = "print" =>
             \A t \in DOMAIN coverage :
               coverage[t].matched = Cardinality(C4_DottedIds(outFile.data, t))

C4_Witness ==
  /\ pc = "print"
  /\ \E m \in AllMatches(outFile.data) : m.id = T1 /\ "execution" \in Range(m.phases)
  /\ \E m \in AllMatches(outFile.data) : m.id = T1_1
  /\ "execution" \in DOMAIN coverage
  /\ coverage["execution"].matched = 1

\* The external ids of the live, flagged sub-techniques whose phases include t.
C5_ExternalIds(doc, t) ==
  LET objs == Range(Get(doc, "objects", <<>>))
  IN  {o.external_references[1].external_id :
         o \in {x \in objs :
                  /\ Get(x, "type", "None") = "attack-pattern"
                  /\ ~Get(x, "revoked", FALSE)
                  /\ Get(x, "x_mitre_is_subtechnique", FALSE)
                  /\ Get(x, "external_references", <<>>) # <<>>
                  /\ "external_id" \in DOMAIN x.external_references[1]
                  /\ \E p \in Range(Get(x, "kill_chain_phases", <<>>)) :
                       Get(p, "phase_name", "None") = t}}

\* C5: the size of load_subtechniques_by_tactic(corpus)[t] is the number of
\* distinct external ids of the live, flagged sub-techniques of tactic t.
C5_TotalIsDistinctIds ==
  pc = "print" =>
    LET total == load_subtechniques_by_tactic(mitreFile.data)
    IN  /\ \A t \in Tactics :
             Cardinality(Get(total, t, {}))
               = Cardinality(C5_ExternalIds(mitreFile.data, t))
        /\ \A t \in DOMAIN coverage :
             coverage[t].total = Cardinality(C5_ExternalIds(mitreFile.data, t))

\* C6: the coverage has exactly the tactics of the total universe, a tactic seen
\* only in the matches is dropped, coverage_percent is 100 * matched / total to
\* the nearest hundredth and 0 when total is 0; one of two sub-techniques of
\* "execution" matched gives matched 1, total 2, 50.0.
C6_CoveragePerTactic ==
  pc = "print" =>
    LET total == load_subtechniques_by_tactic(mitreFile.data)
        matched == extract_matched_subtechniques_by_tactic(outFile.data)
    IN  /\ DOMAIN coverage = DOMAIN total
        /\ \A t \in DOMAIN matched \ DOMAIN total : t \notin DOMAIN coverage
        /\ \A t \in DOMAIN coverage :
             LET c == coverage[t]
             IN  /\ c.total = Cardinality(total[t])
                 /\ c.matched = Cardinality(Get(matched, t, {}))
                 /\ c.total = 0 => c.coverage_percent = 0
                 /\ c.total > 0 =>
                      2 * Abs(c.coverage_percent * c.total - 10000 * c.matched) <= c.total
        /\ ( /\ mitreFile = JsonFile(Bundle(<<SubExec, SubTwoTactics>>))
             /\ AllMatches(outFile.data) \cap {m \in MatchPool : HasDot(m.id)}
                  = {m \in MatchPool : m.id = T1_1} )
             => coverage["execution"]
                  = [matched |-> 1, total |-> 2, coverage_percent |-> 5000]

C6_Witness ==
  /\ pc = "print"
  /\ "execution" \in DOMAIN coverage
  /\ coverage["execution"] = [matched |-> 1, total |-> 2, coverage_percent |-> 5000]
  /\ "persistence" \notin DOMAIN coverage
  /\ \E m \in AllMatches(outFile.data) : m.id = T9_9

\* What extract_techniques is to return for the objects of a corpus.
C7_Id(obj) ==
  IF /\ "external_references" \in DOMAIN obj
     /\ obj.external_references # <<>>
     /\ "external_id" \in DOMAIN obj.external_references[1]
  THEN obj.external_references[1].external_id
  ELSE NullStr

C7_Expected(objs) ==
  LET live == SelectSeq(objs, LAMBDA o :
                Get(o, "type", "None") = "attack-pattern" /\ ~Get(o, "revoked", FALSE))
  IN  [i \in 1..Len(live) |->
         [id |-> C7_Id(live[i]),
          name |-> Get(live[i], "name", ""),
          description |-> Get(live[i], "description", ""),
          phases |-> LET ph == Get(live[i], "kill_chain_phases", <<>>)
                     IN  [j \in 1..Len(ph) |-> Get(ph[j], "phase_name", "")]]]

\* C7: extract_techniques returns, in source order, one Technique per live
\* attack-pattern, with id "null" where there is no external id to resolve
\* (external_references absent, empty, or its first element without
\* external_id), and raises nothing.
C7_ExtractTechniques ==
  ( /\ "corpus_load" \in ran
    /\ mitreFile.state = "json"
    /\ "objects" \in DOMAIN mitreFile.data )
    => /\ ~extract_techniques(mitreFile.data).raised
       /\ pc # "exited"
       /\ techniques = C7_Expected(mitreFile.data.objects)

\* C8: the results hold one MatchEntry per use case, in the order of the input
\* array, each with that use case's name and description; the output file is
\* written once, after every use case has been ranked.
C8_OneEntryPerUseCaseInOrder ==
  LET items == inputFile.data.items
      InOrder(res) ==
        \A i \in 1..Len(res) :
          /\ res[i].usecase = items[i].fields.name
          /\ res[i].description = items[i].fields.description
          /\ Len(res[i].matches) = TopK
  IN  /\ writes <= 1
      /\ writes = 0 => outFile \in {Unread, NoFile, OldOutput}
      /\ pc = "rank" => Len(results) = idx - 1 /\ Len(results) <= Len(items)
                          /\ InOrder(results)
      /\ writes = 1 =>
           /\ outFile = JsonFile(results)
           /\ Len(results) = Len(items)
           /\ InOrder(results)

C8_Witness ==
  /\ writes = 1
  /\ Len(outFile.data) = 2
  /\ outFile.data[1].usecase = "usecase2"
  /\ outFile.data[2].usecase = "usecase1"

\* The matches of one use case are the min(5, n) best of the n techniques, by
\* descending similarity, each the technique at its index.
C9_IsTop(matches, uc) ==
  LET scores == CosScores(sim, uc, techniques)
      n == Len(techniques)
      k == Min(TopK, n)
  IN  /\ Len(matches) = k
      /\ \E top \in [1..k -> 1..n] :
           /\ \A i, j \in 1..k : top[i] = top[j] => i = j
           /\ \A i \in 1..(k - 1) : scores[top[i]] >= scores[top[i + 1]]
           /\ \A j \in 1..n : (\E i \in 1..k : top[i] = j) \/ scores[j] <= scores[top[k]]
           /\ \A i \in 1..k :
                /\ matches[i].id = techniques[top[i]].id
                /\ matches[i].name = techniques[top[i]].name
                /\ matches[i].phases = techniques[top[i]].phases

\* C9: once the model is loaded, every use case gets its MatchEntry with the 5
\* most similar techniques in descending similarity, each mapped back to
\* techniques[idx], whatever the length of the technique list.
C9_EveryUseCaseRanked ==
  (Len(usecases) > 0 /\ pc \in {"coverage", "print", "exited"}) =>
    /\ Len(results) = Len(usecases)
    /\ \A i \in 1..Len(results) : C9_IsTop(results[i].matches, usecases[i])

\* C10: a corpus without "objects" is treated as empty: extract_techniques and
\* load_subtechniques_by_tactic return nothing, and load_mitre_techniques
\* returns zero techniques instead of exiting.
C10_NoObjectsIsEmpty ==
  ( /\ "corpus_load" \in ran
    /\ mitreFile.state = "json"
    /\ "objects" \notin DOMAIN mitreFile.data )
    => /\ extract_techniques(mitreFile.data) = [raised |-> FALSE, value |-> <<>>]
       /\ load_subtechniques_by_tactic(mitreFile.data) = EmptyDict
       /\ pc # "exited"
       /\ techniques = <<>>

====
